---------------------------- MODULE Spec2Model ----------------------------
(***************************************************************************)
(* The fairness evaluation of src/source.py (lines 133-229): the register  *)
(* table is coerced to numbers, rows with a missing group or label are     *)
(* dropped, a binary-label dataset is built from it, its disparate impact  *)
(* and mean difference are printed and interpreted (twice), the table is   *)
(* cleaned in place, the dataset is reweighed, the metrics of the          *)
(* reweighed dataset are printed and the weights are attached to the       *)
(* table.                                                                  *)
(*                                                                         *)
(* The script calls aif360 (StandardDataset, BinaryLabelDatasetMetric,     *)
(* Reweighing) and pandas; the operators named after those calls give the  *)
(* calls the meaning they have in those libraries.  Floating-point values  *)
(* are modelled as exact rationals together with the two IEEE specials the *)
(* computation can produce, NaN (0/0) and infinity (x/0): rounding is not  *)
(* modelled.                                                               *)
(***************************************************************************)
EXTENDS Integers, Sequences, FiniteSets, TLC

\* Bounds of the model.
MaxCell == 4      \* records per (protected, label) cell of a well-formed table
MaxRows == 2      \* rows of a raw table (with missing / non-binary values)
MaxSparseRows == 3   \* rows of a table with missing values in another column

\* Raw cell values of the spreadsheet: STR is a non-numeric string, NA a
\* missing value; 0, 1, 2 are numbers.
STR == 0 - 2
NA == 0 - 1
RawVals == {STR, NA, 0, 1, 2}
OtherVals == {0, 1}
\* values of the other column where it may be missing; the numbers are even,
\* so that the median of any of them is a whole number
SparseOtherVals == {NA, 0, 2}

-----------------------------------------------------------------------------
\* numpy.float64 arithmetic: exact rationals n/d (d > 0, lowest terms), NaN, +-inf

RECURSIVE GCD(_, _)
GCD(a, b) == IF b = 0 THEN a ELSE GCD(b, a % b)

IAbs(x) == IF x < 0 THEN 0 - x ELSE x

Num(n, d) ==
    LET g == GCD(IAbs(n), d)
    IN  [k |-> "num", n |-> n \div g, d |-> d \div g]

NaN == [k |-> "nan", n |-> 0, d |-> 0]
Unset == [k |-> "unset", n |-> 0, d |-> 0]   \* a variable not assigned yet
Inf(s) == [k |-> "inf", n |-> s, d |-> 0]

Sign(x) == IF x.n < 0 THEN 0 - 1 ELSE IF x.n > 0 THEN 1 ELSE 0

FAdd(a, b) ==
    IF a.k = "nan" \/ b.k = "nan" THEN NaN
    ELSE IF a.k = "inf" /\ b.k = "inf" THEN (IF a.n = b.n THEN a ELSE NaN)
    ELSE IF a.k = "inf" THEN a
    ELSE IF b.k = "inf" THEN b
    ELSE Num(a.n * b.d + b.n * a.d, a.d * b.d)

FNeg(a) == IF a.k = "nan" THEN NaN ELSE [a EXCEPT !.n = 0 - a.n]

FSub(a, b) == FAdd(a, FNeg(b))

FMul(a, b) ==
    IF a.k = "nan" \/ b.k = "nan" THEN NaN
    ELSE IF a.k = "inf" \/ b.k = "inf"
         THEN (IF Sign(a) * Sign(b) = 0 THEN NaN ELSE Inf(Sign(a) * Sign(b)))
    ELSE Num(a.n * b.n, a.d * b.d)

\* numpy division: x/0 is +-inf (with a RuntimeWarning), 0/0 is nan; no exception
FDivIEEE(a, b) ==
    IF a.k = "nan" \/ b.k = "nan" THEN NaN
    ELSE IF a.k = "inf" /\ b.k = "inf" THEN NaN
    ELSE IF a.k = "inf" THEN Inf(IF b.n < 0 THEN 0 - a.n ELSE a.n)
    ELSE IF b.k = "inf" THEN Num(0, 1)
    ELSE IF b.n = 0 THEN (IF a.n = 0 THEN NaN ELSE Inf(Sign(a)))
    ELSE IF b.n < 0 THEN Num((0 - a.n) * b.d, a.d * (0 - b.n))
    ELSE Num(a.n * b.d, a.d * b.n)

\* a division that silently yields 0 when the denominator is 0
FDivZeroIsZero(a, b) ==
    IF a.k = "num" /\ b.k = "num" /\ b.n = 0 THEN Num(0, 1) ELSE FDivIEEE(a, b)

FDiv(a, b) == FDivIEEE(a, b)

\* a < b on floats: every comparison with NaN is False
FLess(a, b) ==
    IF a.k = "nan" \/ b.k = "nan" THEN FALSE
    ELSE IF a.k = "inf" /\ b.k = "inf" THEN a.n < b.n
    ELSE IF a.k = "inf" THEN a.n < 0
    ELSE IF b.k = "inf" THEN b.n > 0
    ELSE a.n * b.d < b.n * a.d

FAbs(a) == IF a.k = "nan" THEN NaN ELSE [a EXCEPT !.n = IAbs(a.n)]

RECURSIVE SumOver(_, _)
SumOver(w, I) ==
    IF I = {} THEN Num(0, 1)
    ELSE LET i == CHOOSE x \in I : TRUE
         IN  FAdd(w[i], SumOver(w, I \ {i}))

-----------------------------------------------------------------------------
\* The tables the run can start from.

Row(t, c, o) == [treatment_group_high |-> t, callback_maj |-> c, other |-> o]

RECURSIVE Repeat(_, _, _, _)
\* n rows of cell (t, c), numbered from `from` in the column `other`
Repeat(n, t, c, from) ==
    IF n = 0 THEN << >> ELSE <<Row(t, c, from)>> \o Repeat(n - 1, t, c, from + 1)

\* a well-formed table: binary columns, no missing value, no duplicate row
CellTable(n11, n10, n01, n00) ==
    Repeat(n11, 1, 1, 1) \o Repeat(n10, 1, 0, n11 + 1)
        \o Repeat(n01, 0, 1, n11 + n10 + 1) \o Repeat(n00, 0, 0, n11 + n10 + n01 + 1)

CellTables ==
    { CellTable(a, b, c, d) : a \in 0..MaxCell, b \in 0..MaxCell,
                              c \in 0..MaxCell, d \in 0..MaxCell }

RawRows == { Row(t, c, o) : t \in RawVals, c \in RawVals, o \in OtherVals }

RawTables == UNION { [1..n -> RawRows] : n \in 0..MaxRows }

\* binary group and label, with values missing in another column
SparseRows == { Row(t, c, o) : t \in {0, 1}, c \in {0, 1}, o \in SparseOtherVals }

SparseTables == UNION { [1..n -> SparseRows] : n \in 0..MaxSparseRows }

\* a dataset of aif360: protected attribute, labels and instance weights per
\* record, and the two label values
NoDataset == [prot |-> << >>, label |-> << >>, w |-> << >>, fav |-> 1, unfav |-> 0,
              built |-> FALSE]

VARIABLES
    pc,                 \* the statement the script is at
    df_register,        \* the register table (a sequence of rows)
    weight,             \* the column df_register['weight'] (empty until assigned)
    binary_dataset,     \* StandardDataset built at line 141
    reweighed_dataset,  \* result of Reweighing.fit_transform at line 219
    disparate_impact,   \* the script's variable of that name
    demographic_parity, \* the script's variable of that name
    out,                \* what has been printed so far
    err,                \* the exception that ended the run, or "none"
    invalid_input       \* history: the loaded table held a missing or non-binary
                        \* group or label value

vars == <<pc, df_register, weight, binary_dataset, reweighed_dataset,
          disparate_impact, demographic_parity, out, err, invalid_input>>

\* a row whose group or label is missing, no number, or not one of 0 and 1
InvalidRow(r) == r.treatment_group_high \notin {0, 1} \/ r.callback_maj \notin {0, 1}

Init ==
    /\ pc = "coerce"
    /\ df_register \in CellTables \cup RawTables \cup SparseTables
    /\ weight = << >>
    /\ binary_dataset = NoDataset
    /\ reweighed_dataset = NoDataset
    /\ disparate_impact = Unset
    /\ demographic_parity = Unset
    /\ out = << >>
    /\ err = "none"
    /\ invalid_input = (\E i \in DOMAIN df_register : InvalidRow(df_register[i]))

-----------------------------------------------------------------------------
\* Preprocessing of the table (lines 133-138)

\* pd.to_numeric(..., errors='coerce'): a value that is no number becomes NaN
to_numeric(v) == IF v = STR THEN NA ELSE v

CoerceRow(r) ==
    [r EXCEPT !.treatment_group_high = to_numeric(r.treatment_group_high),
              !.callback_maj = to_numeric(r.callback_maj)]

Coerce ==
    /\ pc = "coerce"
    /\ df_register' = [i \in DOMAIN df_register |-> CoerceRow(df_register[i])]
    /\ pc' = "dropna"
    /\ UNCHANGED <<invalid_input, weight, binary_dataset, reweighed_dataset, disparate_impact,
                   demographic_parity, out, err>>

SubsetPresent(r) == r.treatment_group_high # NA /\ r.callback_maj # NA

\* df_register.dropna(subset=[...], inplace=True)
Dropna ==
    /\ pc = "dropna"
    /\ df_register' = SelectSeq(df_register, SubsetPresent)
    /\ pc' = "dataset"
    /\ UNCHANGED <<invalid_input, weight, binary_dataset, reweighed_dataset, disparate_impact,
                   demographic_parity, out, err>>

-----------------------------------------------------------------------------
\* StandardDataset(df_register, label_name="callback_maj", favorable_classes=[1],
\*                 protected_attribute_names=["treatment_group_high"],
\*                 privileged_classes=[[1]])          (lines 141-144)

AllPresent(r) ==
    r.treatment_group_high # NA /\ r.callback_maj # NA /\ r.other # NA

Ones(n) == [i \in 1..n |-> Num(1, 1)]

LabelValues(rows) == { rows[i].callback_maj : i \in DOMAIN rows }

\* A numeric label column with exactly two values is kept as it is, and the
\* value that is not the favorable class is the unfavorable label; any other
\* column is mapped to 1 (favorable class) and 0 (everything else).
LabelsKept(rows) == Cardinality(LabelValues(rows)) = 2

\* BinaryLabelDataset.validate_dataset: with two label values neither of which
\* is the favorable class 1, the labels do not match {favorable, unfavorable}
LabelsMismatch(rows) == LabelsKept(rows) /\ 1 \notin LabelValues(rows)

MakeDataset(rows) ==
    [prot  |-> [i \in DOMAIN rows |-> rows[i].treatment_group_high],
     label |-> [i \in DOMAIN rows |->
                   IF LabelsKept(rows) THEN rows[i].callback_maj
                   ELSE IF rows[i].callback_maj = 1 THEN 1 ELSE 0],
     w     |-> Ones(Len(rows)),
     fav   |-> 1,
     unfav |-> IF LabelsKept(rows) /\ 1 \in LabelValues(rows)
               THEN CHOOSE v \in LabelValues(rows) : v # 1
               ELSE 0,
     built |-> TRUE]

BuildDataset ==
    /\ pc = "dataset"
    /\ LET rows == SelectSeq(df_register, AllPresent)
       IN  IF LabelsMismatch(rows)
           THEN /\ pc' = "failed"
                /\ err' = "ValueError"
                /\ UNCHANGED binary_dataset
           ELSE /\ pc' = "metric"
                /\ binary_dataset' = MakeDataset(rows)
                /\ UNCHANGED err
    /\ UNCHANGED <<invalid_input, df_register, weight, reweighed_dataset, disparate_impact,
                   demographic_parity, out>>

-----------------------------------------------------------------------------
\* BinaryLabelDatasetMetric(dataset, privileged_groups=[{"treatment_group_high": 1}],
\*                          unprivileged_groups=[{"treatment_group_high": 0}])

\* the records of the privileged (protected = 1) or unprivileged (protected = 0) group
Group(ds, privileged) ==
    { i \in DOMAIN ds.prot : ds.prot[i] = (IF privileged THEN 1 ELSE 0) }

num_instances(ds, privileged) == SumOver(ds.w, Group(ds, privileged))

num_positives(ds, privileged) ==
    SumOver(ds.w, { i \in Group(ds, privileged) : ds.label[i] = ds.fav })

base_rate(ds, privileged) ==
    FDiv(num_positives(ds, privileged), num_instances(ds, privileged))

\* the ratio the wrong way round: privileged over unprivileged
disparate_impact_inverted(ds) == FDiv(base_rate(ds, TRUE), base_rate(ds, FALSE))

\* metric.disparate_impact(): unprivileged base rate over privileged base rate
metric_disparate_impact(ds) == FDiv(base_rate(ds, FALSE), base_rate(ds, TRUE))

\* the difference the wrong way round
mean_difference_inverted(ds) == FSub(base_rate(ds, TRUE), base_rate(ds, FALSE))

\* metric.mean_difference(): unprivileged base rate minus privileged base rate
metric_mean_difference(ds) == FSub(base_rate(ds, FALSE), base_rate(ds, TRUE))

BuildMetric ==
    /\ pc = "metric"
    /\ pc' = "print1"
    /\ UNCHANGED <<invalid_input, df_register, weight, binary_dataset, reweighed_dataset,
                   disparate_impact, demographic_parity, out, err>>

\* one printed report: the two metric values (kind "metrics"), the two
\* interpretation messages (kind "flags") or the closing line (kind "final")
Report(kind, src, di, md, sig, high) ==
    [kind |-> kind, src |-> src, di |-> di, md |-> md, sig |-> sig, high |-> high]

PrintMetrics(src, ds) ==
    Report("metrics", src, metric_disparate_impact(ds), metric_mean_difference(ds),
           FALSE, FALSE)

\* lines 151-152 and 170-171
PrintBefore(at, next) ==
    /\ pc = at
    /\ out' = Append(out, PrintMetrics("metric", binary_dataset))
    /\ pc' = next
    /\ UNCHANGED <<invalid_input, df_register, weight, binary_dataset, reweighed_dataset,
                   disparate_impact, demographic_parity, err>>

\* `disparate_impact <= 0.8`
SignificantDisparityInclusive(di) == ~ FLess(Num(4, 5), di) /\ di.k # "nan"

\* `disparate_impact < 0.8`
SignificantDisparity(di) == FLess(di, Num(4, 5))

\* `abs(demographic_parity) > 0.2`
HighGap(md) == FLess(Num(1, 5), FAbs(md))

\* lines 155-166 and 175-185: both read `metric`, the metric of binary_dataset
Interpret(at, next) ==
    /\ pc = at
    /\ disparate_impact' = metric_disparate_impact(binary_dataset)
    /\ demographic_parity' = metric_mean_difference(binary_dataset)
    /\ out' = Append(out, Report("flags", "metric", disparate_impact', demographic_parity',
                                 SignificantDisparity(disparate_impact'),
                                 HighGap(demographic_parity')))
    /\ pc' = next
    /\ UNCHANGED <<invalid_input, df_register, weight, binary_dataset, reweighed_dataset, err>>

PrintBefore1 == PrintBefore("print1", "interp1")
Interpret1 == Interpret("interp1", "print2")
PrintBefore2 == PrintBefore("print2", "interp2")
Interpret2 == Interpret("interp2", "clean")

-----------------------------------------------------------------------------
\* clean_data(df_register), lines 188-210

RECURSIVE drop_duplicates(_)
\* keeps the first of each group of equal rows
drop_duplicates(rows) ==
    IF rows = << >> THEN << >>
    ELSE LET init == drop_duplicates(SubSeq(rows, 1, Len(rows) - 1))
             last == rows[Len(rows)]
         IN  IF \E i \in 1..(Len(rows) - 1) : rows[i] = last
             THEN init ELSE Append(init, last)

\* the values of the column `other` that are not missing
OtherPresent(rows) == SelectSeq([i \in DOMAIN rows |-> rows[i].other], LAMBDA v : v # NA)

\* the k-th smallest of the values vs
KthSmallest(vs, k) ==
    CHOOSE v \in { vs[i] : i \in DOMAIN vs } :
        /\ Cardinality({ i \in DOMAIN vs : vs[i] < v }) < k
        /\ k <= Cardinality({ i \in DOMAIN vs : vs[i] <= v })

\* median of a column, missing values skipped; NA when nothing is left
\* (the two middle values are both even, see SparseOtherVals)
Median(vs) ==
    IF vs = << >> THEN NA
    ELSE IF Len(vs) % 2 = 1 THEN KthSmallest(vs, (Len(vs) + 1) \div 2)
    ELSE (KthSmallest(vs, Len(vs) \div 2) + KthSmallest(vs, Len(vs) \div 2 + 1)) \div 2

\* df.fillna(<medians of the numeric columns>): the group and label columns
\* hold no missing value after line 138, the column `other` may
fill_median(rows) ==
    [i \in DOMAIN rows |->
        IF rows[i].other = NA
        THEN [rows[i] EXCEPT !.other = Median(OtherPresent(rows))]
        ELSE rows[i]]

RECURSIVE ffill(_)
\* df.fillna(method='ffill'): a missing value takes the value of the row above
ffill(rows) ==
    IF Len(rows) <= 1 THEN rows
    ELSE LET init == ffill(SubSeq(rows, 1, Len(rows) - 1))
             last == rows[Len(rows)]
         IN  Append(init, IF last.other = NA
                          THEN [last EXCEPT !.other = init[Len(init)].other]
                          ELSE last)

\* The type conversion of object columns finds nothing to convert: the table
\* holds numbers only after lines 134-135.
clean_data(rows) == ffill(fill_median(drop_duplicates(rows)))

Clean ==
    /\ pc = "clean"
    /\ df_register' = clean_data(df_register)
    /\ pc' = "reweigh"
    /\ UNCHANGED <<invalid_input, weight, binary_dataset, reweighed_dataset, disparate_impact,
                   demographic_parity, out, err>>

-----------------------------------------------------------------------------
\* Reweighing(privileged_groups, unprivileged_groups).fit_transform(binary_dataset)

\* the records of cell (group g, label l)
Cell(ds, g, l) == { i \in DOMAIN ds.prot : ds.prot[i] = g /\ ds.label[i] = l }

WithProt(ds, g) == { i \in DOMAIN ds.prot : ds.prot[i] = g }
WithLabel(ds, l) == { i \in DOMAIN ds.prot : ds.label[i] = l }

\* a cell weight that forgets the total: n_label * n_group / n_cell
CellWeightNoTotal(ds, g, l) ==
    FDiv(FMul(SumOver(ds.w, WithLabel(ds, l)), SumOver(ds.w, WithProt(ds, g))),
         SumOver(ds.w, Cell(ds, g, l)))

\* the expected count of the cell taken as its weight: the division by the
\* observed count is missing
CellWeightExpected(ds, g, l) ==
    FDiv(FMul(SumOver(ds.w, WithLabel(ds, l)), SumOver(ds.w, WithProt(ds, g))),
         SumOver(ds.w, DOMAIN ds.prot))

\* fit: w_cell = n_label * n_group / (n * n_cell), all counts sums of instance weights
CellWeight(ds, g, l) ==
    FDiv(FMul(SumOver(ds.w, WithLabel(ds, l)), SumOver(ds.w, WithProt(ds, g))),
         FMul(SumOver(ds.w, DOMAIN ds.prot), SumOver(ds.w, Cell(ds, g, l))))

\* transform: the weight of every record of a cell is multiplied by the cell's
\* weight; a record in none of the four cells keeps its weight
fit_transform(ds) ==
    [ds EXCEPT !.w = [i \in DOMAIN ds.w |->
        IF ds.prot[i] \in {0, 1} /\ ds.label[i] \in {ds.fav, ds.unfav}
        THEN FMul(ds.w[i], CellWeight(ds, ds.prot[i], ds.label[i]))
        ELSE ds.w[i]]]

Reweigh ==
    /\ pc = "reweigh"
    /\ reweighed_dataset' = fit_transform(binary_dataset)
    /\ pc' = "after"
    /\ UNCHANGED <<invalid_input, df_register, weight, binary_dataset, disparate_impact,
                   demographic_parity, out, err>>

\* lines 222-224: the metrics of the reweighed dataset are printed; no
\* interpretation follows
PrintAfter ==
    /\ pc = "after"
    /\ out' = Append(out, PrintMetrics("reweighed_metric", reweighed_dataset))
    /\ pc' = "attach"
    /\ UNCHANGED <<invalid_input, df_register, weight, binary_dataset, reweighed_dataset,
                   disparate_impact, demographic_parity, err>>

\* line 227: df_register['weight'] = reweighed_dataset.instance_weights; pandas
\* raises ValueError when the array is not as long as the table
AttachWeights ==
    /\ pc = "attach"
    /\ IF Len(reweighed_dataset.w) = Len(df_register)
       THEN /\ weight' = reweighed_dataset.w
            /\ pc' = "final"
            /\ UNCHANGED err
       ELSE /\ pc' = "failed"
            /\ err' = "ValueError"
            /\ UNCHANGED weight
    /\ UNCHANGED <<invalid_input, df_register, binary_dataset, reweighed_dataset, disparate_impact,
                   demographic_parity, out>>

\* line 229
Final ==
    /\ pc = "final"
    /\ out' = Append(out, Report("final", "script", Unset, Unset, FALSE, FALSE))
    /\ pc' = "done"
    /\ UNCHANGED <<invalid_input, df_register, weight, binary_dataset, reweighed_dataset,
                   disparate_impact, demographic_parity, err>>

Next ==
    \/ Coerce
    \/ Dropna
    \/ BuildDataset
    \/ BuildMetric
    \/ PrintBefore1
    \/ Interpret1
    \/ PrintBefore2
    \/ Interpret2
    \/ Clean
    \/ Reweigh
    \/ PrintAfter
    \/ AttachWeights
    \/ Final

Spec == Init /\ [][Next]_vars

-----------------------------------------------------------------------------
\* Vocabulary of the properties

\* the dataset a report was computed from
DatasetOf(src) == IF src = "metric" THEN binary_dataset ELSE reweighed_dataset

MetricReports == { i \in DOMAIN out : out[i].kind = "metrics" }
FlagReports == { i \in DOMAIN out : out[i].kind = "flags" }

\* weight of the group's records and of its favorable records
GroupWeight(ds, g) == SumOver(ds.w, { i \in DOMAIN ds.prot : ds.prot[i] = g })
FavWeight(ds, g) ==
    SumOver(ds.w, { i \in DOMAIN ds.prot : ds.prot[i] = g /\ ds.label[i] = 1 })

IsZero(x) == x.k = "num" /\ x.n = 0
Positive(x) == x.k = "num" /\ x.n > 0

\* number of records of binary_dataset in a cell, a group, a label class
CountCell(g, l) ==
    Cardinality({ i \in DOMAIN binary_dataset.prot :
                    binary_dataset.prot[i] = g /\ binary_dataset.label[i] = l })
CountProt(g) == CountCell(g, 1) + CountCell(g, 0)
CountLabel(l) ==
    Cardinality({ i \in DOMAIN binary_dataset.label : binary_dataset.label[i] = l })
TotalCount == Len(binary_dataset.prot)

FourCells ==
    /\ binary_dataset.built
    /\ \A g \in {0, 1} : \A l \in {0, 1} : CountCell(g, l) > 0

\* the 10-record dataset: cells (1,1)=3, (1,0)=3, (0,1)=1, (0,0)=3
TenRecords ==
    /\ binary_dataset.built
    /\ TotalCount = 10
    /\ CountCell(1, 1) = 3 /\ CountCell(1, 0) = 3
    /\ CountCell(0, 1) = 1 /\ CountCell(0, 0) = 3

Reweighed == pc \in {"after", "attach", "final", "done"} \/ reweighed_dataset.built

-----------------------------------------------------------------------------
\* C1: whenever the privileged group's favorable rate is non-zero, every
\* reported disparate impact (of the unweighted and of the reweighed dataset)
\* is favorable_rate(unprivileged) / favorable_rate(privileged), the rates
\* being weighted favorable share of each group; it is undefined (NaN) only
\* when the unprivileged group is empty.  On the 10-record dataset (6
\* privileged with 3 favorable, 4 unprivileged with 1 favorable) it is 0.5.
C1_DisparateImpactIsRatio ==
    \A i \in MetricReports :
        LET ds == DatasetOf(out[i].src)
            Fp == FavWeight(ds, 1)
            Tp == GroupWeight(ds, 1)
            Fu == FavWeight(ds, 0)
            Tu == GroupWeight(ds, 0)
            di == out[i].di
        IN  Positive(Fp) =>
              /\ Positive(Tu) =>
                    /\ di.k = "num"
                    /\ FMul(di, FMul(Tu, Fp)) = FMul(Fu, Tp)
              /\ IsZero(Tu) => di.k = "nan"
              /\ (TenRecords /\ out[i].src = "metric") => di = Num(1, 2)

C1_Witness ==
    /\ TenRecords
    /\ \E i \in MetricReports : out[i].src = "metric" /\ out[i].di = Num(1, 2)
    /\ \E i \in MetricReports : out[i].src = "reweighed_metric" /\ out[i].di.k = "num"

\* C4: with both groups non-empty, every reported mean difference is
\* favorable_rate(unprivileged) - favorable_rate(privileged), lies in [-1, 1],
\* and is 0 exactly when the two rates are equal.
C4_MeanDifference ==
    \A i \in MetricReports :
        LET ds == DatasetOf(out[i].src)
            Fp == FavWeight(ds, 1)
            Tp == GroupWeight(ds, 1)
            Fu == FavWeight(ds, 0)
            Tu == GroupWeight(ds, 0)
            md == out[i].md
        IN  (Positive(Tp) /\ Positive(Tu)) =>
              /\ md.k = "num"
              /\ FMul(md, FMul(Tu, Tp)) = FSub(FMul(Fu, Tp), FMul(Fp, Tu))
              /\ md.n <= md.d /\ 0 - md.n <= md.d
              /\ (md.n = 0) <=> (FMul(Fu, Tp) = FMul(Fp, Tu))

\* a negative gap (the 10-record dataset: 0.25 - 0.5) has been reported
C4_Witness ==
    /\ TenRecords
    /\ \E i \in MetricReports : out[i].src = "metric" /\ out[i].md = Num(0 - 1, 4)

\* C5: the "significant disparity" message is printed exactly when the
\* computed disparate impact is strictly below 0.8 and the "high gap" message
\* exactly when |mean difference| is strictly above 0.2; neither at the
\* boundary values 0.8 and 0.2.
C5_Flags ==
    \A i \in FlagReports :
        LET r == out[i]
        IN  /\ r.sig <=> (r.di.k = "num" /\ 5 * r.di.n < 4 * r.di.d)
            /\ r.high <=> \/ r.md.k = "inf"
                          \/ r.md.k = "num" /\ 5 * IAbs(r.md.n) > r.md.d

\* both boundaries at once: rates 0.8 and 1.0 give ratio 0.8 and gap -0.2
C5_Witness ==
    \E i \in FlagReports :
        /\ out[i].di = Num(4, 5) /\ ~ out[i].sig
        /\ out[i].md = Num(0 - 1, 5) /\ ~ out[i].high

\* C2: with all four cells non-empty, after reweighing the weighted favorable
\* rates of the two groups are equal, and the metrics printed for the
\* reweighed dataset are disparate impact 1 and mean difference 0.
C2_ReweighingEqualizesRates ==
    (FourCells /\ Reweighed) =>
        /\ FMul(FavWeight(reweighed_dataset, 1), GroupWeight(reweighed_dataset, 0))
             = FMul(FavWeight(reweighed_dataset, 0), GroupWeight(reweighed_dataset, 1))
        /\ Positive(FavWeight(reweighed_dataset, 1))
        /\ \A i \in MetricReports :
              out[i].src = "reweighed_metric" =>
                  out[i].di = Num(1, 1) /\ out[i].md = Num(0, 1)

\* a dataset with unequal rates before (0.5 and 0.25) reports 1 and 0 after
C2_Witness ==
    /\ TenRecords
    /\ \E i \in MetricReports : out[i].src = "metric" /\ out[i].di = Num(1, 2)
    /\ \E i \in MetricReports :
          out[i].src = "reweighed_metric" /\ out[i].di = Num(1, 1) /\ out[i].md = Num(0, 1)

\* C3: with all four cells non-empty, the weight of each record of cell (g, l)
\* is count(protected = g) * count(label = l) / (total_count * count(g, l));
\* on the 10-record dataset that is 0.8 for the (1,1) records and 1.6 for the
\* (0,1) record.
C3_CellWeights ==
    (FourCells /\ Reweighed) =>
        /\ Len(reweighed_dataset.w) = TotalCount
        /\ \A i \in DOMAIN reweighed_dataset.w :
              LET g == binary_dataset.prot[i]
                  l == binary_dataset.label[i]
                  w == reweighed_dataset.w[i]
              IN  (g \in {0, 1} /\ l \in {0, 1}) =>
                    /\ w.k = "num"
                    /\ w.n * (TotalCount * CountCell(g, l))
                         = w.d * (CountProt(g) * CountLabel(l))
                    /\ (TenRecords /\ g = 1 /\ l = 1) => w = Num(4, 5)
                    /\ (TenRecords /\ g = 0 /\ l = 1) => w = Num(8, 5)

C3_Witness ==
    /\ TenRecords
    /\ Reweighed
    /\ \E i \in DOMAIN reweighed_dataset.w :
          binary_dataset.prot[i] = 1 /\ binary_dataset.label[i] = 1
            /\ reweighed_dataset.w[i] = Num(4, 5)
    /\ \E i \in DOMAIN reweighed_dataset.w :
          binary_dataset.prot[i] = 0 /\ binary_dataset.label[i] = 1
            /\ reweighed_dataset.w[i] = Num(8, 5)

\* C8: with all four cells non-empty, after reweighing the weights of each
\* protected group sum to the group's unweighted record count.
C8_GroupWeightPreserved ==
    (FourCells /\ Reweighed) =>
        \A g \in {0, 1} : GroupWeight(reweighed_dataset, g) = Num(CountProt(g), 1)

\* groups of different sizes, with weights that are not all 1
C8_Witness ==
    /\ FourCells
    /\ Reweighed
    /\ CountProt(1) = 6 /\ CountProt(0) = 4
    /\ GroupWeight(reweighed_dataset, 1) = Num(6, 1)
    /\ GroupWeight(reweighed_dataset, 0) = Num(4, 1)
    /\ \E i \in DOMAIN reweighed_dataset.w : reweighed_dataset.w[i] # Num(1, 1)

\* binary_dataset holds records, and some (protected, label) cell has none
ZeroCell ==
    /\ binary_dataset.built
    /\ TotalCount > 0
    /\ \E g \in {0, 1} : \E l \in {0, 1} : CountCell(g, l) = 0

\* the run has gone past line 219
PastReweigh == pc \in {"after", "attach", "final", "done"}

\* C6: reweighing a dataset with an empty (protected, label) cell fails with
\* InsufficientData and produces no weight.
C6_InsufficientData ==
    ZeroCell =>
        /\ ~ PastReweigh
        /\ ~ reweighed_dataset.built
        /\ (pc = "failed" => err = "InsufficientData")

\* the privileged group is not empty and its favorable rate is 0
PrivilegedRateZero(ds) == Positive(GroupWeight(ds, 1)) /\ IsZero(FavWeight(ds, 1))

C9_BothResultsAndFlags ==
    (pc = "done" /\ FourCells) =>
        /\ \E i \in MetricReports : \E j \in MetricReports :
              /\ out[i].src = "metric" /\ out[j].src = "reweighed_metric" /\ i < j
        /\ reweighed_dataset.built
        /\ \E i \in FlagReports : out[i].src = "metric"
        /\ \E i \in FlagReports : out[i].src = "reweighed_metric"

\* C10: when the privileged favorable rate is 0 (disparate impact undefined)
\* no interpretation message is ever printed, and a run in which that happens
\* or in which a cell needed by the reweigher is empty ends with nothing
\* printed and no weight attached.
C10_NoPartialResults ==
    /\ (binary_dataset.built /\ PrivilegedRateZero(binary_dataset)) => FlagReports = {}
    /\ (pc \in {"done", "failed"} /\ binary_dataset.built
          /\ (PrivilegedRateZero(binary_dataset) \/ ZeroCell)) =>
            /\ out = << >>
            /\ weight = << >>

\* C11: in every dataset that reaches the evaluator the privileged group
\* (protected = 1) and the unprivileged group (protected = 0) are disjoint and
\* their sizes add up to the number of records.
C11_PartitionComplete ==
    binary_dataset.built =>
        /\ Group(binary_dataset, TRUE) \cap Group(binary_dataset, FALSE) = {}
        /\ Cardinality(Group(binary_dataset, TRUE))
              + Cardinality(Group(binary_dataset, FALSE)) = Len(binary_dataset.prot)

\* C12: a table holding a record whose label or group is missing or not 0/1
\* never reaches the partitioner, the evaluator or the reweigher: no dataset
\* holding records is ever built from it (the run has to fail first).
C12_InvalidInputRejected ==
    invalid_input => ~ (binary_dataset.built /\ TotalCount > 0)

\* the run is past line 227, where the weights are attached to the table
PastAttach == reweighed_dataset.built /\ pc \in {"failed", "final", "done"}

\* C13: where the weights are attached to the (cleaned) table, there are as
\* many weights as rows, the column is assigned, and every row with a binary
\* group and label holds a weight the reweigher computed for the row's own
\* (protected, label) cell.
C13_WeightsMatchRows ==
    PastAttach =>
        /\ Len(reweighed_dataset.w) = Len(df_register)
        /\ Len(weight) = Len(df_register)
        /\ \A i \in DOMAIN weight :
              ~ InvalidRow(df_register[i]) =>
                  \E j \in DOMAIN reweighed_dataset.w :
                      /\ reweighed_dataset.prot[j] = df_register[i].treatment_group_high
                      /\ reweighed_dataset.label[j] = df_register[i].callback_maj
                      /\ reweighed_dataset.w[j] = weight[i]

=============================================================================
